---- MODULE Spec2Model ----
(***************************************************************************)
(* Model of the Dropbox team-log retrieval scripts                         *)
(*   src/bin/dropbox_downloader.py  (the complete variant)                 *)
(*   src/bin/dropbox-download.py    (the early variant)                    *)
(* A behaviour of Spec is a sequence of serialized runs of one of the two   *)
(* scripts against its cache directory; in a behaviour of ConcurrentSpec a *)
(* second process of the script may run at the same time.  The environment *)
(* (wall clock, calendar day, local time zone, command line) and the       *)
(* upstream API's answers are chosen nondeterministically from small sets. *)
(***************************************************************************)
EXTENDS Integers, Sequences, FiniteSets, TLC

VARIABLES
    script,             \* which script the behaviour runs
    pc,                 \* control point of the current run
    clock, day, tz,     \* environment: wall clock (ticks), calendar day, local zone
    dirs, lockFile,     \* cache directories exist; watermark file content
    logFiles, sumFiles, \* per-day event log / checksum file contents (on disk)
    ARGS, DATE_STAMP,   \* module-level state of the run
    BEARER_TOKEN,
    MY_STAMP, my_now, now,
    START_DATE, FINAL_DATE,
    DROPBOX_TARGET_URL, json_data, GET_DATA,
    dropbox_json_logs, events, SUM_LIST,
    output_file, output_sums,   \* text still buffered in the open file objects
    exit_code,
    \* history of the run, kept for stating the properties
    nruns, requests, responses, processed, lockWrites,
    logAtStart, sumAtStart, logAtPost, sumAtPost, prev,
    cacheAtStart,
    fingerprints,       \* every fingerprint computed so far, with what it was computed from
    served, delivered,
    upstream,           \* the answers the upstream API has to give
    \* a second process of the script against the same cache directory
    other,              \* the process's own state while the first one is scheduled
    overlapped          \* a process was started while the other one was running

envVars  == <<clock, day, tz>>
fileVars == <<dirs, lockFile, logFiles, sumFiles>>
argVars  == <<ARGS, DATE_STAMP, BEARER_TOKEN>>
timeVars == <<MY_STAMP, my_now, now, START_DATE, FINAL_DATE>>
loopVars == <<DROPBOX_TARGET_URL, json_data, GET_DATA, dropbox_json_logs, events,
              SUM_LIST, output_file, output_sums>>
histVars == <<nruns, requests, responses, processed, lockWrites,
              logAtStart, sumAtStart, logAtPost, sumAtPost, prev, cacheAtStart,
              fingerprints, served, delivered>>
schedVars == <<other, overlapped>>
vars == <<script, pc, envVars, fileVars, argVars, timeVars, loopVars, exit_code, histVars,
          upstream, schedVars>>

(***************************************************************************)
(* Bounds of the model                                                     *)
(***************************************************************************)
MaxRuns     == 2    \* runs in a behaviour
MaxRequests == 2    \* requests the upstream answers in a behaviour
MaxEvents   == 2    \* events the upstream serves in a behaviour
MaxDay      == 1    \* calendar days 0..MaxDay
MaxAdvance  == 1    \* clock ticks that pass between two launches: 1..MaxAdvance
TicksPerSec == 2    \* resolution of the wall clock below one second

(***************************************************************************)
(* Python values                                                           *)
(***************************************************************************)
Unset == <<>>           \* a name not bound yet

\* JSON values as json.loads returns them: the type is part of the value, so that
\* Python's == between a bool and a str is False.
JsonBool(b) == [type |-> "bool", v |-> IF b THEN "True" ELSE "False"]
JsonStr(s)  == [type |-> "str", v |-> s]

Scripts == {"dropbox_downloader.py", "dropbox-download.py"}
Zones   == {"UTC", "CET"}
Days    == 0..MaxDay

DROPBOX_BASE_URL == "https://api.dropboxapi.com/2/team_log/get_events"
DROPBOX_CONTINUE_URL == "https://api.dropboxapi.com/2/team_log/get_events/continue"

(***************************************************************************)
(* Text.  A string is a sequence of text pieces (themselves strings), so   *)
(* that appending, splitting and replacing are computed as the code does.  *)
(* An instant is a number of clock ticks.                                  *)
(***************************************************************************)
\* datetime.replace(microsecond=0)
ReplaceMicrosecond0(t) == t - (t % TicksPerSec)

\* datetime.isoformat(): the fraction is printed only when it is not zero
IsoFormat(t) ==
    IF t % TicksPerSec = 0
    THEN <<"iso", ToString(t \div TicksPerSec)>>
    ELSE <<"iso", ToString(t \div TicksPerSec), ".", ToString(t % TicksPerSec)>>

\* int(datetime.timestamp())
TimestampSeconds(t) == t \div TicksPerSec

\* datetime.fromtimestamp(s).strftime("%Y-%m-%dT%H:%M:%S")
StrftimeSeconds(s) == <<"iso", ToString(s)>>

SECONDS_TABLE == [s |-> 1, m |-> 60, h |-> 3600, d |-> 86400, w |-> 604800]

\* a range string is <<digits, unit>>: int(my_range[:-1]) * SECONDS_TABLE[my_range[-1]]
convert_to_seconds(my_range) == my_range[1] * SECONDS_TABLE[my_range[2]]

\* TIMESTAMP: midnight of the launch day, printed with milliseconds
TIMESTAMP(today) == <<"midnight", ToString(today), ".000">>

\* str.split('#') of a string holding one '#'
Split(s) ==
    LET i == CHOOSE k \in 1..Len(s) : s[k] = "#"
    IN  <<SubSeq(s, 1, i - 1), SubSeq(s, i + 1, Len(s))>>

\* str.replace(old, new) piece by piece; new = "" deletes the piece
RECURSIVE Replace(_, _, _)
Replace(s, old, new) ==
    IF s = <<>> THEN <<>>
    ELSE (IF Head(s) = old
          THEN (IF new = "" THEN <<>> ELSE <<new>>)
          ELSE <<Head(s)>>) \o Replace(Tail(s), old, new)

Contains(list, x) == \E i \in 1..Len(list) : list[i] = x

(***************************************************************************)
(* Command line.  An option that is not given is the empty string (falsy). *)
(***************************************************************************)
NotGiven == <<>>
OverrideStamps == <<"A", "#", "B">>         \* -s "A#B"
DefaultRange == <<1, "d">>                  \* -r default '1d'

\* ARGS when no option is given; dropbox-download.py takes no option at all
NoArgs ==
    [MY_BEARER_TOKEN |-> NotGiven, MY_TIME_RANGE |-> DefaultRange,
     MY_TIME_STAMPS |-> NotGiven, MY_CFG_FILE |-> NotGiven, INITIALIZE |-> FALSE]

TokenArg == <<"token-t">>                   \* -t <token>
CfgWithToken == <<"with-token.cfg">>        \* -c: a file that has [Default] BEARER_TOKEN
CfgNoToken == <<"no-token.cfg">>            \* -c: a file without that option

\* CONFIG.has_option('Default', 'BEARER_TOKEN') and CONFIG.get of it, per config file
CONFIG ==
    [f \in {CfgWithToken, CfgNoToken} |->
        IF f = CfgWithToken
        THEN [has_option |-> TRUE, BEARER_TOKEN |-> "token-c"]
        ELSE [has_option |-> FALSE, BEARER_TOKEN |-> ""]]

ArgChoices(scr) ==
    IF scr = "dropbox_downloader.py"
    THEN { [NoArgs EXCEPT !.MY_BEARER_TOKEN = TokenArg],
           [NoArgs EXCEPT !.MY_BEARER_TOKEN = TokenArg, !.MY_TIME_STAMPS = OverrideStamps],
           [NoArgs EXCEPT !.MY_CFG_FILE = CfgWithToken],
           [NoArgs EXCEPT !.MY_CFG_FILE = CfgNoToken],
           NoArgs,
           [NoArgs EXCEPT !.INITIALIZE = TRUE] }
    ELSE { NoArgs }

\* BEARER_TOKEN after the module-level code of dropbox_downloader.py (57, 87-103):
\* 'UNSET', then the config file's option, then -t
ResolveToken(args) ==
    IF args.MY_BEARER_TOKEN # NotGiven THEN args.MY_BEARER_TOKEN[1]
    ELSE IF args.MY_CFG_FILE # NotGiven /\ CONFIG[args.MY_CFG_FILE].has_option
         THEN CONFIG[args.MY_CFG_FILE].BEARER_TOKEN
         ELSE "UNSET"

\* dropbox-download.py resolves no token: its header holds a placeholder (103)
PlaceholderToken == "<Enter your access token here>"

(***************************************************************************)
(* Upstream: raw events, pages and responses                               *)
(***************************************************************************)
TsCanonical == <<"DATE", "T", "TIME", "Z">>    \* YYYY-MM-DDTHH:MM:SSZ
TsLenient   == <<"DATE", " ", "TIME">>         \* YYYY-MM-DD HH:MM:SS
TsGarbage   == <<"not-a-date">>

RawEvents ==
    { [id |-> 1, timestamp |-> TsCanonical],
      [id |-> 2, timestamp |-> TsCanonical],
      [id |-> 1, timestamp |-> TsLenient],
      [id |-> 1, timestamp |-> TsGarbage],
      [id |-> 1] }

Pages(n) == UNION { [1..k -> RawEvents] : k \in 0..n }

Cursors == {"c1"}

HasMoreValues == {JsonBool(TRUE), JsonBool(FALSE), JsonStr("true")}

StatusCodes == {200, 404}

\* The answers the upstream can give when it may still serve n events.
Responses(n) ==
    { [status_code |-> st] : st \in StatusCodes \ {200} }
    \cup
    { [status_code |-> 200, events |-> p, has_more |-> h, cursor |-> c] :
          p \in Pages(n), h \in HasMoreValues, c \in Cursors }

(***************************************************************************)
(* Files                                                                   *)
(***************************************************************************)
Absent == [exists |-> FALSE, lines |-> <<>>]
File(lines) == [exists |-> TRUE, lines |-> lines]

\* DROPBOX_SUMS_FILE: the path of the checksum file holds DATE_STAMP
DROPBOX_SUMS_FILE == <<"sums", "dropbox-checksums", ToString(DATE_STAMP), "sum">>

\* hashlib.md5(text).hexdigest(), taken to be injective
Md5(text) == [md5 |-> text]

START_STRING == Md5([text |-> <<"Initialized:">> \o DROPBOX_SUMS_FILE])

\* open(path, 'w'): the file is created or emptied
OpenTruncate(f) == File(<<>>)

\* open(path, 'a+') creates the file when it does not exist
OpenAppend(f) == IF f.exists THEN f ELSE File(<<>>)

\* a file object that loses its buffered text: the buffered text is dropped when the file object goes away
FlushDropped(f, buffer) == f

\* closing a file object (rebinding its name, interpreter exit) writes out its buffer
Flush(f, buffer) == IF buffer = <<>> THEN f ELSE File(f.lines \o buffer)

\* file.write(line): the line is buffered; when the buffer fills (spill) the
\* buffered text, this line included, is written out.
WriteDisk(f, buffer, line, spill) == IF spill THEN File(f.lines \o buffer \o <<line>>) ELSE f
\* a buffer that grows at its front: the newest line comes first
WriteBufferFront(buffer, line, spill) == IF spill THEN <<>> ELSE <<line>> \o buffer

WriteBuffer(buffer, line, spill) == IF spill THEN <<>> ELSE Append(buffer, line)

(***************************************************************************)
(* Event normalization and fingerprint (dropbox_downloader.py 274-287)     *)
(***************************************************************************)
HasTimestamp(event) == "timestamp" \in DOMAIN event

\* event['timestamp'].replace('T', ' ').replace('Z', '')
JsonStamp(event) == Replace(Replace(event.timestamp, "T", " "), "Z", "")

\* datetime.strptime(jsonstamp, "%Y-%m-%d %H:%M:%S") succeeds
StrptimeOk(jsonstamp) == jsonstamp = <<"DATE", " ", "TIME">>

\* the event with original_timestamp (UTC) and adjusted_timestamp (local zone)
Normalize(event, zone) ==
    LET jsonstamp == JsonStamp(event)
        original_timestamp == <<jsonstamp[1], " ", jsonstamp[3], " ", "UTC">>
        adjusted_timestamp == <<jsonstamp[1], " ", jsonstamp[3], " ", zone>>
    IN  [id |-> event.id, timestamp |-> event.timestamp,
         original_timestamp |-> original_timestamp,
         adjusted_timestamp |-> adjusted_timestamp]

\* json.dumps(event)
JsonDumps(event) == [json |-> event]

\* a fingerprint of the timestamp alone
JsonSumOfStamp(event, zone) == Md5(JsonDumps(JsonStamp(event)))

JsonSum(event, zone) == Md5(JsonDumps(Normalize(event, zone)))

\* sys.exit(arg): the status the parent sees is arg where the platform keeps it
\* whole, and its low 8 bits on POSIX; Python documents values outside 0..127 as
\* undefined.
SysExit(arg) == {arg, arg % 256}


(***************************************************************************)
(* Initial state: no run yet, an empty cache directory.                    *)
(***************************************************************************)
NoData == [data |-> "None"]         \* requests.post without data=
NoPrev == [exists |-> FALSE]

\* What a process holds of its own: its names and the history of its run.
Process ==
    [pc |-> pc, exit_code |-> exit_code,
     ARGS |-> ARGS, DATE_STAMP |-> DATE_STAMP, BEARER_TOKEN |-> BEARER_TOKEN,
     MY_STAMP |-> MY_STAMP, my_now |-> my_now, now |-> now,
     START_DATE |-> START_DATE, FINAL_DATE |-> FINAL_DATE,
     DROPBOX_TARGET_URL |-> DROPBOX_TARGET_URL, json_data |-> json_data,
     GET_DATA |-> GET_DATA, dropbox_json_logs |-> dropbox_json_logs,
     events |-> events, SUM_LIST |-> SUM_LIST,
     output_file |-> output_file, output_sums |-> output_sums,
     requests |-> requests, responses |-> responses, processed |-> processed,
     lockWrites |-> lockWrites, logAtStart |-> logAtStart, sumAtStart |-> sumAtStart,
     logAtPost |-> logAtPost, sumAtPost |-> sumAtPost, prev |-> prev,
     cacheAtStart |-> cacheAtStart]

InitProgram ==
    /\ script \in Scripts
    /\ pc = "idle"
    /\ clock = 0 /\ day = 0 /\ tz = "UTC"
    /\ dirs = FALSE
    /\ lockFile = [exists |-> FALSE, text |-> <<>>]
    /\ logFiles = [d \in Days |-> Absent]
    /\ sumFiles = [d \in Days |-> Absent]
    /\ ARGS = NoArgs
    /\ DATE_STAMP = 0
    /\ BEARER_TOKEN = "UNSET"
    /\ MY_STAMP = Unset /\ my_now = 0 /\ now = Unset
    /\ START_DATE = Unset /\ FINAL_DATE = Unset
    /\ DROPBOX_TARGET_URL = "" /\ json_data = NoData /\ GET_DATA = ""
    /\ dropbox_json_logs = NoData /\ events = <<>> /\ SUM_LIST = <<>>
    /\ output_file = <<>> /\ output_sums = <<>>
    /\ exit_code = -1           \* no exit status yet
    /\ nruns = 0 /\ requests = <<>> /\ responses = <<>> /\ processed = <<>>
    /\ lockWrites = 0
    /\ logAtStart = logFiles /\ sumAtStart = sumFiles
    /\ logAtPost = logFiles /\ sumAtPost = sumFiles
    /\ prev = NoPrev
    /\ cacheAtStart = <<dirs, lockFile>>
    /\ fingerprints = {}
    /\ served = 0 /\ delivered = 0
    /\ other = Process         \* not started either
    /\ overlapped = FALSE

\* The runs are made against an upstream that can give any of the answers.
Init ==
    /\ InitProgram
    /\ upstream = Responses(MaxEvents)

\* What the files hold once everything written so far has reached them.
WithPending(f, buffer) == IF buffer = <<>> THEN f ELSE File(f.lines \o buffer)
LogContent == [logFiles EXCEPT ![DATE_STAMP] = WithPending(@, output_file)]
SumContent == [sumFiles EXCEPT ![DATE_STAMP] = WithPending(@, output_sums)]

\* What is remembered of a run when the next one is launched.
RunSummary ==
    [exists |-> TRUE, pc |-> pc, exit_code |-> exit_code, ARGS |-> ARGS,
     DATE_STAMP |-> DATE_STAMP, tz |-> tz, my_now |-> my_now, now |-> now,
     requests |-> requests, responses |-> responses]

(***************************************************************************)
(* Launch: the module-level code of a new process                          *)
(* (dropbox_downloader.py 53-145, dropbox-download.py 16-30).  Runs are    *)
(* serialized: a process starts only when none is running.                 *)
(***************************************************************************)
\* How a process can have ended: the script ran to its end, it called sys.exit,
\* or an exception was not caught.
Ended == {"done", "sys_exit", "raised"}

\* How a process can have ended before its main program reached the request loop:
\* -i wrote a starter config and called sys.exit() (82), no token was resolved
\* and the module-level code called sys.exit(10) (113),
\* or writing the watermark file raised OSError (191).
EndedEarly == {"initialized", "config_error", "os_error"}

\* the exit status of a process that ends by an exception nothing catches
UncaughtException == {1}

\* module-level code without the check of lines 111-113: the run always goes on
AfterModuleLevelUnchecked(scr, args, token) ==
    [pc |-> "get_timestamp_data", exit_codes |-> {-1}]

\* the module-level code up to line 113: where the process goes on, and its exit
\* status (-1: none yet)
AfterModuleLevel(scr, args, token) ==
    IF scr = "dropbox_downloader.py" /\ args.INITIALIZE
    THEN [pc |-> "initialized", exit_codes |-> {0}]
    ELSE IF scr = "dropbox_downloader.py" /\ token = "UNSET"
         THEN [pc |-> "config_error", exit_codes |-> SysExit(10)]
         ELSE [pc |-> "get_timestamp_data", exit_codes |-> {-1}]

\* The first run starts on the initial day in the initial zone; between two runs
\* the calendar may move on to the next day and the local zone may change.
DaysAtLaunch  == IF nruns = 0 THEN {day} ELSE {day, day + 1} \cap Days
ZonesAtLaunch == IF nruns = 0 THEN {tz} ELSE Zones

Launch ==
    /\ pc \in {"idle"} \cup Ended \cup EndedEarly
    /\ nruns < MaxRuns
    /\ \E adv \in 1..MaxAdvance : clock' = clock + adv
    /\ day' \in DaysAtLaunch
    /\ tz' \in ZonesAtLaunch
    /\ ARGS' \in ArgChoices(script)
    /\ DATE_STAMP' = day'
    /\ BEARER_TOKEN' = IF script = "dropbox_downloader.py"
                       THEN ResolveToken(ARGS') ELSE PlaceholderToken
    /\ MY_STAMP' = Unset /\ my_now' = 0 /\ now' = Unset
    /\ START_DATE' = Unset /\ FINAL_DATE' = Unset
    /\ DROPBOX_TARGET_URL' = "" /\ json_data' = NoData /\ GET_DATA' = ""
    /\ dropbox_json_logs' = NoData /\ events' = <<>> /\ SUM_LIST' = <<>>
    /\ output_file' = <<>> /\ output_sums' = <<>>
    /\ exit_code' \in AfterModuleLevel(script, ARGS', BEARER_TOKEN').exit_codes
    /\ nruns' = nruns + 1
    /\ requests' = <<>> /\ responses' = <<>> /\ processed' = <<>>
    /\ lockWrites' = 0
    /\ logAtStart' = logFiles /\ sumAtStart' = sumFiles
    /\ logAtPost' = logFiles /\ sumAtPost' = sumFiles
    /\ prev' = IF nruns = 0 THEN NoPrev ELSE RunSummary
    /\ cacheAtStart' = <<dirs, lockFile>>
    /\ pc' = AfterModuleLevel(script, ARGS', BEARER_TOKEN').pc
    /\ overlapped' = (overlapped \/ other.pc \notin {"idle"} \cup Ended \cup EndedEarly)
    /\ UNCHANGED <<other, upstream, script, fileVars, fingerprints, served, delivered>>

(***************************************************************************)
(* get_timestamp_data (dropbox_downloader.py 154-175, -download.py 32-49)  *)
(***************************************************************************)
get_timestamp_data(file, today) ==
    (IF file.exists THEN file.text ELSE TIMESTAMP(today)) \o <<"Z">>

GetTimestampData ==
    /\ pc = "get_timestamp_data"
    /\ dirs' = TRUE
    /\ MY_STAMP' = get_timestamp_data(lockFile, DATE_STAMP)
    /\ pc' = "put_timestamp_data"
    /\ UNCHANGED <<schedVars, upstream, script, envVars, lockFile, logFiles, sumFiles, argVars,
                   my_now, now, START_DATE, FINAL_DATE, loopVars, exit_code, histVars>>

(***************************************************************************)
(* put_timestamp_data (dropbox_downloader.py 177-194 called at 200-201,    *)
(* dropbox-download.py 51-64 called at 82)                                 *)
(***************************************************************************)
\* a writer without replace(microsecond=0): the time is written with its fraction of a second
put_timestamp_untruncated(my_tsvalue) == IsoFormat(my_tsvalue)

\* the text written to the watermark file
put_timestamp_data(my_tsvalue) == IsoFormat(ReplaceMicrosecond0(my_tsvalue))

\* what open(my_tsfile, 'w') leaves when the write fails: the file as it was when
\* open itself failed, an empty file when open had truncated it
AfterFailedWrite(file, truncated) ==
    IF truncated THEN [exists |-> TRUE, text |-> <<>>] ELSE file

\* an except clause that does not raise again: the run goes on
OnWriteErrorSwallowed(truncated) ==
    /\ lockFile' = AfterFailedWrite(lockFile, truncated)
    /\ now' = put_timestamp_data(my_now') \o <<"Z">>
    /\ UNCHANGED <<lockWrites, exit_code>>
    /\ pc' = "window"

\* except OSError: logging.error(...); raise -- nothing catches it
OnWriteError(truncated) ==
    /\ lockFile' = AfterFailedWrite(lockFile, truncated)
    /\ UNCHANGED <<now, lockWrites>>
    /\ exit_code' \in UncaughtException
    /\ pc' = "os_error"

PutTimestampData ==
    /\ pc = "put_timestamp_data"
    /\ my_now' = clock
    /\ \/ /\ lockFile' = [exists |-> TRUE, text |-> put_timestamp_data(my_now')]
          /\ now' = put_timestamp_data(my_now') \o <<"Z">>
          /\ lockWrites' = lockWrites + 1
          /\ pc' = "window"
          /\ UNCHANGED exit_code
       \/ \E truncated \in BOOLEAN : OnWriteError(truncated)
    /\ UNCHANGED <<schedVars, upstream, script, envVars, dirs, logFiles, sumFiles, argVars, MY_STAMP,
                   START_DATE, FINAL_DATE, loopVars,
                   nruns, requests, responses, processed,
                   logAtStart, sumAtStart, logAtPost, sumAtPost, prev, cacheAtStart,
                   fingerprints, served, delivered>>

(***************************************************************************)
(* The time window and the first request                                   *)
(* (dropbox_downloader.py 203-236, dropbox-download.py 86-95)              *)
(***************************************************************************)
\* <<START_DATE, FINAL_DATE>> of dropbox_downloader.py
WindowDates(args, t) ==
    IF args.MY_TIME_STAMPS # NotGiven
    THEN Split(args.MY_TIME_STAMPS)
    ELSE LET final_seconds == TimestampSeconds(t)
             start_seconds == final_seconds - convert_to_seconds(args.MY_TIME_RANGE)
         IN  <<StrftimeSeconds(start_seconds) \o <<"Z">>,
               StrftimeSeconds(final_seconds) \o <<"Z">>>>

\* start_end_time
StartEndTime(scr, args, t, stamp, nowZ) ==
    IF scr = "dropbox_downloader.py"
    THEN [start_time |-> WindowDates(args, t)[1], end_time |-> WindowDates(args, t)[2]]
    ELSE [start_time |-> stamp, end_time |-> nowZ]

BuildWindow ==
    /\ pc = "window"
    /\ LET w == StartEndTime(script, ARGS, my_now, MY_STAMP, now)
       IN  /\ START_DATE' = w.start_time
           /\ FINAL_DATE' = w.end_time
           /\ json_data' = [time |-> w]
    /\ DROPBOX_TARGET_URL' = DROPBOX_BASE_URL
    /\ GET_DATA' = "true"
    /\ pc' = "post"
    /\ UNCHANGED <<schedVars, upstream, script, envVars, fileVars, argVars, MY_STAMP, my_now, now,
                   dropbox_json_logs, events, SUM_LIST, output_file, output_sums,
                   exit_code, histVars>>

(***************************************************************************)
(* Leaving the process: sys.exit, an uncaught exception, or the end of the *)
(* script.  The interpreter closes the open file objects, which writes out *)
(* what they still buffer.                                                 *)
(***************************************************************************)
\* a process that is ended without its file objects being closed: what they
\* buffer is lost
ExitUnflushed(how, codes) ==
    /\ exit_code' \in codes
    /\ UNCHANGED <<logFiles, sumFiles>>
    /\ output_file' = <<>>
    /\ output_sums' = <<>>
    /\ pc' = how

Exit(how, codes) ==
    /\ exit_code' \in codes
    /\ logFiles' = [logFiles EXCEPT ![DATE_STAMP] = Flush(@, output_file)]
    /\ sumFiles' = [sumFiles EXCEPT ![DATE_STAMP] = Flush(@, output_sums)]
    /\ output_file' = <<>>
    /\ output_sums' = <<>>
    /\ pc' = how

(***************************************************************************)
(* One request and the handling of its response up to the event loop       *)
(* (dropbox_downloader.py 238-271, dropbox-download.py 97-114)             *)
(***************************************************************************)
\* the data= argument of requests.post: dropbox-download.py passes none
RequestData(scr, data) == IF scr = "dropbox_downloader.py" THEN data ELSE NoData

\* get_response.status_code != 200 is False
StatusOk(resp) == resp.status_code = 200

\* remove_dot_key, the object_hook of dropbox-download.py: calls .replace on the
\* dict for its first key, which raises AttributeError unless the dict is empty
remove_dot_key_raises(json_object) == DOMAIN json_object # {}

\* seeding without the os.path.isfile test: the seed is appended on every page
SeedSumsAlways(f) == File(f.lines \o <<START_STRING>>)

\* os.path.isfile(DROPBOX_SUMS_FILE) is False: the file is created with the seed
SeedSums(f) == IF f.exists THEN f ELSE File(<<START_STRING>>)

\* a loader that ignores the file: nothing is read from the checksum file
LoadSumListEmpty(f) == <<>>

\* SUM_LIST: the lines of the checksum file as it is on disk
LoadSumList(f) == f.lines

Post ==
    /\ pc = "post"
    /\ served < MaxRequests
    /\ \E resp \in Responses(MaxEvents - delivered) \cap upstream :
        /\ requests' = Append(requests, [url |-> DROPBOX_TARGET_URL,
                                         data |-> RequestData(script, json_data)])
        /\ responses' = Append(responses, resp)
        /\ served' = served + 1
        /\ delivered' = delivered + (IF resp.status_code = 200 THEN Len(resp.events) ELSE 0)
        /\ logAtPost' = LogContent
        /\ sumAtPost' = SumContent
        /\ \/ /\ ~StatusOk(resp)
              /\ Exit("sys_exit", SysExit(resp.status_code))
              /\ UNCHANGED <<dropbox_json_logs, events, SUM_LIST>>
           \/ /\ StatusOk(resp)
              /\ script = "dropbox-download.py"
              /\ remove_dot_key_raises(resp)
              /\ Exit("raised", UncaughtException)
              /\ UNCHANGED <<dropbox_json_logs, events, SUM_LIST>>
           \/ /\ StatusOk(resp)
              /\ script = "dropbox_downloader.py"
              /\ dropbox_json_logs' = resp
              /\ events' = resp.events
              /\ LET seeded == SeedSums(sumFiles[DATE_STAMP])
                 IN  /\ SUM_LIST' = LoadSumList(seeded)
                     /\ sumFiles' = [sumFiles EXCEPT ![DATE_STAMP] = Flush(seeded, output_sums)]
              /\ logFiles' = [logFiles EXCEPT
                                 ![DATE_STAMP] = Flush(OpenAppend(@), output_file)]
              /\ output_file' = <<>>
              /\ output_sums' = <<>>
              /\ exit_code' = exit_code
              /\ pc' = "events"
    /\ UNCHANGED <<schedVars, upstream, script, envVars, dirs, lockFile, argVars, timeVars,
                   DROPBOX_TARGET_URL, json_data, GET_DATA,
                   nruns, processed, lockWrites, logAtStart, sumAtStart, prev, cacheAtStart,
                   fingerprints>>

(***************************************************************************)
(* One pass of the event loop (dropbox_downloader.py 272-297)              *)
(***************************************************************************)
\* the event's timestamp is there and parses
TimestampOk(event) == HasTimestamp(event) /\ StrptimeOk(JsonStamp(event))

\* a membership test that never finds the fingerprint
IsDuplicateNever(sum_list, json_sum) == FALSE

\* JSON_SUM in SUM_LIST
IsDuplicate(sum_list, json_sum) == Contains(sum_list, json_sum)

\* a lenient handler: an event whose timestamp cannot be read is skipped
OnBadTimestampSkip ==
    /\ events' = Tail(events)
    /\ UNCHANGED <<pc, exit_code, logFiles, sumFiles, output_file, output_sums>>

\* event['timestamp'] raises KeyError, or strptime raises ValueError: nothing
\* catches it
OnBadTimestamp ==
    /\ Exit("raised", UncaughtException)
    /\ UNCHANGED events

ProcessEvent ==
    /\ pc = "events"
    /\ events # <<>>
    /\ LET event == Head(events) IN
        /\ processed' = Append(processed, event)
        /\ fingerprints' =
              IF TimestampOk(event)
              THEN fingerprints \cup {[event |-> event, zone |-> tz, day |-> DATE_STAMP,
                                       sum |-> JsonSum(event, tz)]}
              ELSE fingerprints
        /\ \/ /\ ~TimestampOk(event)
              /\ OnBadTimestamp
           \/ /\ TimestampOk(event)
              /\ IsDuplicate(SUM_LIST, JsonSum(event, tz))
              /\ events' = Tail(events)
              /\ UNCHANGED <<pc, exit_code, logFiles, sumFiles, output_file, output_sums>>
           \/ /\ TimestampOk(event)
              /\ ~IsDuplicate(SUM_LIST, JsonSum(event, tz))
              /\ events' = Tail(events)
              /\ \E spill_file, spill_sums \in BOOLEAN :
                   LET json_log == JsonDumps(Normalize(event, tz))
                       JSON_SUM == JsonSum(event, tz)
                   IN  /\ logFiles' = [logFiles EXCEPT ![DATE_STAMP] =
                                          WriteDisk(@, output_file, json_log, spill_file)]
                       /\ output_file' = WriteBuffer(output_file, json_log, spill_file)
                       /\ sumFiles' = [sumFiles EXCEPT ![DATE_STAMP] =
                                          WriteDisk(@, output_sums, JSON_SUM, spill_sums)]
                       /\ output_sums' = WriteBuffer(output_sums, JSON_SUM, spill_sums)
              /\ UNCHANGED <<pc, exit_code>>
    /\ UNCHANGED <<schedVars, upstream, script, envVars, dirs, lockFile, argVars, timeVars,
                   DROPBOX_TARGET_URL, json_data, GET_DATA, dropbox_json_logs, SUM_LIST,
                   nruns, requests, responses, lockWrites,
                   logAtStart, sumAtStart, logAtPost, sumAtPost, prev, cacheAtStart,
                   served, delivered>>

(***************************************************************************)
(* The end of a page (dropbox_downloader.py 299-305)                       *)
(***************************************************************************)
\* dropbox_json_logs['has_more'] == 'true'
HasMore(has_more) == has_more = JsonStr("true")

EndPage ==
    /\ pc = "events"
    /\ events = <<>>
    /\ \/ /\ HasMore(dropbox_json_logs.has_more)
          /\ DROPBOX_TARGET_URL' = DROPBOX_CONTINUE_URL
          /\ json_data' = [cursor |-> dropbox_json_logs.cursor]
          /\ pc' = "post"
          /\ UNCHANGED <<GET_DATA, exit_code, logFiles, sumFiles, output_file, output_sums>>
       \/ /\ ~HasMore(dropbox_json_logs.has_more)
          /\ GET_DATA' = "false"
          /\ Exit("done", {0})
          /\ UNCHANGED <<DROPBOX_TARGET_URL, json_data>>
    /\ UNCHANGED <<schedVars, upstream, script, envVars, dirs, lockFile, argVars, timeVars,
                   dropbox_json_logs, events, SUM_LIST, histVars>>

(***************************************************************************)
(* Midnight passes while a process runs.  The process took DATE_STAMP and  *)
(* TODAY when it started (125, 139) and does not look at the date again.   *)
(***************************************************************************)
Midnight ==
    /\ pc \notin {"idle"} \cup Ended \cup EndedEarly
    /\ day < MaxDay
    /\ day' = day + 1
    /\ UNCHANGED <<schedVars, upstream, script, pc, clock, tz, fileVars, argVars, timeVars, loopVars,
                   exit_code, histVars>>

Next ==
    \/ Midnight
    \/ Launch
    \/ GetTimestampData
    \/ PutTimestampData
    \/ BuildWindow
    \/ Post
    \/ ProcessEvent
    \/ EndPage

Spec == Init /\ [][Next]_vars

(***************************************************************************)
(* Two processes of the script at a time.  Nothing in the scripts keeps a  *)
(* second process from starting while one runs; the system schedules them  *)
(* between any two steps.  Switch hands the processor to the other         *)
(* process: the names of the one are put aside and those of the other are  *)
(* taken up; the files, the clock and the upstream are common to both.     *)
(***************************************************************************)
Switch ==
    /\ \/ pc \notin {"idle"} \cup Ended \cup EndedEarly
       \/ other.pc \notin {"idle"} \cup Ended \cup EndedEarly
    /\ other' = Process
    /\ pc' = other.pc /\ exit_code' = other.exit_code
    /\ ARGS' = other.ARGS /\ DATE_STAMP' = other.DATE_STAMP
    /\ BEARER_TOKEN' = other.BEARER_TOKEN
    /\ MY_STAMP' = other.MY_STAMP /\ my_now' = other.my_now /\ now' = other.now
    /\ START_DATE' = other.START_DATE /\ FINAL_DATE' = other.FINAL_DATE
    /\ DROPBOX_TARGET_URL' = other.DROPBOX_TARGET_URL /\ json_data' = other.json_data
    /\ GET_DATA' = other.GET_DATA /\ dropbox_json_logs' = other.dropbox_json_logs
    /\ events' = other.events /\ SUM_LIST' = other.SUM_LIST
    /\ output_file' = other.output_file /\ output_sums' = other.output_sums
    /\ requests' = other.requests /\ responses' = other.responses
    /\ processed' = other.processed /\ lockWrites' = other.lockWrites
    /\ logAtStart' = other.logAtStart /\ sumAtStart' = other.sumAtStart
    /\ logAtPost' = other.logAtPost /\ sumAtPost' = other.sumAtPost
    /\ prev' = other.prev /\ cacheAtStart' = other.cacheAtStart
    /\ UNCHANGED <<script, envVars, fileVars, nruns, fingerprints, served, delivered,
                   upstream, overlapped>>

NextConcurrent ==
    \/ Next
    \/ Switch

\* The answers of an upstream that has one event to serve, one event a page: the
\* event, or the event without its timestamp.
RaceEvent == [id |-> 1, timestamp |-> TsCanonical]

RaceResponses ==
    { [status_code |-> 404] }
    \cup
    { [status_code |-> 200, events |-> p, has_more |-> h, cursor |-> "c1"] :
          p \in {<<RaceEvent>>, <<[id |-> 1]>>},
          h \in {JsonBool(FALSE), JsonStr("true")} }

InitConcurrent ==
    /\ InitProgram
    /\ upstream = RaceResponses

ConcurrentSpec == InitConcurrent /\ [][NextConcurrent]_vars

(***************************************************************************)
(* Definitions shared by the properties                                    *)
(***************************************************************************)
Last(q) == q[Len(q)]

RECURSIVE ConcatEvents(_)
ConcatEvents(resps) ==
    IF resps = <<>> THEN <<>>
    ELSE (IF resps[1].status_code = 200 THEN resps[1].events ELSE <<>>)
         \o ConcatEvents(Tail(resps))

NoRepeat(q) == \A i, j \in 1..Len(q) : q[i] = q[j] => i = j

\* the lines the current run has added to its day's files so far
AppendedLog ==
    SubSeq(LogContent[DATE_STAMP].lines, Len(logAtStart[DATE_STAMP].lines) + 1,
           Len(LogContent[DATE_STAMP].lines))
AppendedSums ==
    SubSeq(SumContent[DATE_STAMP].lines, Len(sumAtStart[DATE_STAMP].lines) + 1,
           Len(SumContent[DATE_STAMP].lines))

Canonical(event) == HasTimestamp(event) /\ event.timestamp = TsCanonical

\* every answer of the run so far is a 200 with a JSON boolean has_more and
\* events whose timestamps have the documented form
AnswersInContract ==
    \A i \in 1..Len(responses) :
        /\ responses[i].status_code = 200
        /\ responses[i].has_more \in {JsonBool(TRUE), JsonBool(FALSE)}
        /\ \A k \in 1..Len(responses[i].events) : Canonical(responses[i].events[k])

(***************************************************************************)
(* C1  Pagination.  When the upstream answers the first N requests with    *)
(* status 200 and has_more = true (JSON boolean) and request N+1 with      *)
(* has_more = false, the run issues exactly N+1 requests and processes the *)
(* concatenation of all pages: a run that has ended after in-contract      *)
(* answers ended normally, after an answer with has_more = false, having   *)
(* processed every event served.  Stated of dropbox_downloader.py.         *)
(***************************************************************************)
C1_Pagination ==
    (script = "dropbox_downloader.py" /\ pc \in Ended /\ responses # <<>>
        /\ AnswersInContract) =>
        /\ pc = "done"
        /\ Last(responses).has_more = JsonBool(FALSE)
        /\ processed = ConcatEvents(responses)

(***************************************************************************)
(* C2  Request shape.  The first request of every run goes to the primary  *)
(* endpoint with the run's time window as its body; every later request    *)
(* goes to the continuation endpoint with only the cursor of the preceding *)
(* response.                                                               *)
(***************************************************************************)
C2_RequestShape ==
    \A i \in 1..Len(requests) :
        IF i = 1
        THEN /\ requests[i].url = DROPBOX_BASE_URL
             /\ requests[i].data =
                    [time |-> [start_time |-> START_DATE, end_time |-> FINAL_DATE]]
        ELSE /\ requests[i].url = DROPBOX_CONTINUE_URL
             /\ requests[i].data = [cursor |-> responses[i - 1].cursor]

\* what C2 says does hold of dropbox_downloader.py
C2_ShapeInDownloader == script = "dropbox_downloader.py" => C2_RequestShape

(***************************************************************************)
(* C3  In-run deduplication.  Within one run no fingerprint is appended to *)
(* the dedup index twice and no normalized event is appended to the event  *)
(* log twice.                                                              *)
(***************************************************************************)
C3_NoDoubleAppend == NoRepeat(AppendedSums) /\ NoRepeat(AppendedLog)

(***************************************************************************)
(* C4  Idempotence across runs.  When a run has completed and the next run *)
(* receives the same upstream answers for the same time window, the second *)
(* run leaves the event log and the dedup index as they were.              *)
(***************************************************************************)
\* the current run has ended normally after the previous run did, with the same
\* first request body and the same answers
RepeatedRun ==
    /\ script = "dropbox_downloader.py"
    /\ pc = "done"
    /\ prev.exists
    /\ prev.pc = "done"
    /\ responses = prev.responses
    /\ requests[1].data = prev.requests[1].data

\* the fingerprints of events in a checksum file: its lines but the seed
IsSeed(sum) == "text" \in DOMAIN sum.md5
EventSums(f) == SelectSeq(f.lines, LAMBDA sum : ~IsSeed(sum))

\* no line is added to any day's event log and no event fingerprint to any day's
\* index (the seed of a newly created index file is not counted).  The claim is
\* stated here for runs in one and the same local zone, which is enough to refute
\* it: a change of zone between the runs breaks it as well.
C4_IdempotentAnyDay ==
    (RepeatedRun /\ tz = prev.tz) =>
        \A d \in Days :
            /\ logFiles[d].lines = logAtStart[d].lines
            /\ EventSums(sumFiles[d]) = EventSums(sumAtStart[d])

\* C4 as amended: ... provided the second run starts on the same calendar day
\* and in the same local time zone as the first.
C4_IdempotentSameDay ==
    (RepeatedRun /\ DATE_STAMP = prev.DATE_STAMP /\ tz = prev.tz) =>
        (logFiles = logAtStart /\ sumFiles = sumAtStart)

C4_Witness ==
    /\ RepeatedRun /\ DATE_STAMP = prev.DATE_STAMP /\ tz = prev.tz
    /\ processed # <<>>
    /\ logFiles[DATE_STAMP].lines # <<>>

(***************************************************************************)
(* C5  Window resolution.  Without an override the window sent in the      *)
(* first request is {start_time: W, end_time: T}, W the watermark read and *)
(* T the run's start time; with an override "A#B" it is {A, B}.  Stated of *)
(* dropbox_downloader.py, for a run that found a watermark file.           *)
(***************************************************************************)
C5_WindowSent ==
    (script = "dropbox_downloader.py" /\ prev.exists /\ requests # <<>>) =>
        requests[1].data =
            IF ARGS.MY_TIME_STAMPS = OverrideStamps
            THEN [time |-> [start_time |-> <<"A">>, end_time |-> <<"B">>]]
            ELSE [time |-> [start_time |-> MY_STAMP, end_time |-> now]]

\* the override half of C5 does hold of dropbox_downloader.py
C5_OverrideSent ==
    (script = "dropbox_downloader.py" /\ requests # <<>>
        /\ ARGS.MY_TIME_STAMPS = OverrideStamps) =>
        requests[1].data = [time |-> [start_time |-> <<"A">>, end_time |-> <<"B">>]]

(***************************************************************************)
(* C6  Window contiguity.  For two consecutive runs without an override the*)
(* later run's start_time is the earlier run's end_time.                   *)
(***************************************************************************)
C6_Contiguous ==
    (script = "dropbox_downloader.py" /\ prev.exists /\ requests # <<>>
        /\ prev.requests # <<>>
        /\ ARGS.MY_TIME_STAMPS = NotGiven /\ prev.ARGS.MY_TIME_STAMPS = NotGiven) =>
        requests[1].data.time.start_time = prev.requests[1].data.time.end_time

(***************************************************************************)
(* C7  The watermark is advanced at run start.  Once a run has issued a    *)
(* request, and after its request loop has ended in whatever way (it ran   *)
(* to its end, a status other than 200, an event that cannot be read), the *)
(* watermark file has been written exactly once by the run and holds the   *)
(* run's start time cut to whole seconds.                                  *)
(***************************************************************************)
C7_WatermarkAtStart ==
    (requests # <<>> \/ pc \in Ended) =>
        /\ lockWrites = 1
        /\ lockFile.exists
        /\ lockFile.text = <<"iso", ToString(my_now \div TicksPerSec)>>

C7_Witness ==
    /\ script = "dropbox_downloader.py"
    /\ pc = "raised"
    /\ nruns = 2
    /\ prev.exists /\ prev.pc = "sys_exit"
    /\ prev.my_now % TicksPerSec # 0
    /\ lockFile.text # prev.now

(***************************************************************************)
(* C8  Upstream failure.  When a response has a status other than 200 the  *)
(* run ends at once with the status code as its exit code: no event is     *)
(* processed and no request follows.                                       *)
(***************************************************************************)
C8_ExitCodeIsStatus ==
    pc = "sys_exit" =>
        /\ exit_code = Last(responses).status_code
        /\ Len(requests) = Len(responses)
        /\ processed = ConcatEvents(responses)

\* what C8 says apart from the exit code does hold
C8_AbortsAtOnce ==
    (responses # <<>> /\ Last(responses).status_code # 200) =>
        /\ pc = "sys_exit"
        /\ exit_code \in SysExit(Last(responses).status_code)
        /\ Len(requests) = Len(responses)
        /\ script = "dropbox_downloader.py" => processed = ConcatEvents(responses)

(***************************************************************************)
(* C9  No partial commit.  After a run was aborted by a status other than  *)
(* 200, the event log and the dedup index are as they were when the run    *)
(* started.                                                                *)
(***************************************************************************)
C9_NothingCommitted ==
    pc = "sys_exit" =>
        \A d \in Days :
            /\ logFiles[d].lines = logAtStart[d].lines
            /\ EventSums(sumFiles[d]) = EventSums(sumAtStart[d])

\* C9 as amended: the failing response adds nothing; the files are as they were
\* when the failing request was issued, the lines of earlier pages included.
C9_FailingResponseAddsNothing ==
    pc = "sys_exit" => (logFiles = logAtPost /\ sumFiles = sumAtPost)

C9_Witness ==
    /\ pc = "sys_exit"
    /\ Len(responses) = 2
    /\ logFiles # logAtStart
    /\ Len(sumFiles[DATE_STAMP].lines) = 2

(***************************************************************************)
(* C10  Malformed timestamp.  When an event's timestamp is missing or does *)
(* not have the form YYYY-MM-DDTHH:MM:SSZ, the run aborts with an error:   *)
(* the event is appended neither to the log nor to the index, no later     *)
(* event of the page is processed and no further request is issued.        *)
(***************************************************************************)
\* the timestamp is missing or is one the code cannot read: of the stamps of the
\* model, all but the documented form and "YYYY-MM-DD HH:MM:SS"
Unreadable(event) ==
    \/ ~HasTimestamp(event)
    \/ event.timestamp \notin {TsCanonical, TsLenient}

\* the run was aborted by the i-th event it processed: that event is the last one
\* processed and belongs to the last page received, and every line the run has
\* added comes from an earlier event of the run
AbortedBy(i) ==
    /\ pc = "raised"
    /\ exit_code = 1
    /\ i = Len(processed)
    /\ processed = SubSeq(ConcatEvents(responses), 1, i)
    /\ i > Len(ConcatEvents(SubSeq(responses, 1, Len(responses) - 1)))
    /\ Len(requests) = Len(responses)
    /\ \A k \in 1..Len(AppendedLog) :
          \E j \in 1..(i - 1) :
              /\ ~Unreadable(processed[j])
              /\ AppendedLog[k] = JsonDumps(Normalize(processed[j], tz))
    /\ \A k \in 1..Len(AppendedSums) :
          \/ IsSeed(AppendedSums[k])
          \/ \E j \in 1..(i - 1) :
              /\ ~Unreadable(processed[j])
              /\ AppendedSums[k] = JsonSum(processed[j], tz)

C10_NotCanonicalAborts ==
    script = "dropbox_downloader.py" =>
        \A i \in 1..Len(processed) : ~Canonical(processed[i]) => AbortedBy(i)

\* C10 as amended: the run aborts when the timestamp is missing or, after 'T' is
\* replaced by a space and 'Z' is deleted, does not read YYYY-MM-DD HH:MM:SS.
C10_UnreadableAborts ==
    script = "dropbox_downloader.py" =>
        \A i \in 1..Len(processed) : Unreadable(processed[i]) => AbortedBy(i)

C10_Witness ==
    /\ script = "dropbox_downloader.py"
    /\ pc = "raised"
    /\ Unreadable(Last(processed))
    /\ Len(events) = 2         \* the bad event and a later one of its page

(***************************************************************************)
(* C11  Missing credential.  When no bearer token is resolved from the     *)
(* command line or the config file, the process exits with code 10 before  *)
(* anything else happens: no request is issued and the watermark file, the *)
(* event log and the dedup index are left as they were; no directory or    *)
(* file is created.  Stated of dropbox_downloader.py.                      *)
(***************************************************************************)
\* neither -t nor a config file with a BEARER_TOKEN option
TokenMissing(args) ==
    /\ args.MY_BEARER_TOKEN = NotGiven
    /\ args.MY_CFG_FILE \in {NotGiven, CfgNoToken}

ExitsWith10Untouched ==
    /\ pc = "config_error"
    /\ exit_code = 10
    /\ requests = <<>>
    /\ lockWrites = 0
    /\ <<dirs, lockFile>> = cacheAtStart
    /\ logFiles = logAtStart
    /\ sumFiles = sumAtStart

C11_MissingTokenExits10 ==
    (script = "dropbox_downloader.py" /\ nruns > 0 /\ TokenMissing(ARGS)) =>
        ExitsWith10Untouched

\* C11 as amended: ... unless the process was started in initialize-config mode
\* (-i), which writes a starter config and exits with code 0 before the token is
\* looked at.
C11_MissingTokenExits10UnlessInit ==
    (script = "dropbox_downloader.py" /\ nruns > 0 /\ TokenMissing(ARGS)
        /\ ~ARGS.INITIALIZE) =>
        ExitsWith10Untouched

C11_Witness ==
    /\ script = "dropbox_downloader.py"
    /\ nruns = 2
    /\ pc = "config_error"
    /\ ARGS.MY_CFG_FILE = CfgNoToken
    /\ lockFile.exists
    /\ logFiles[DATE_STAMP].lines # <<>>

(***************************************************************************)
(* C12  Seed invariant.  Whenever a dedup index file exists its first line *)
(* is the seed fingerprint, the hash of the initialization string and that *)
(* file's path; directly after a fresh index was initialized the loaded    *)
(* index holds the seed and nothing else; a file that exists is never      *)
(* seeded again.                                                           *)
(***************************************************************************)
\* the seed of day d's index file
SeedOf(d) ==
    Md5([text |-> <<"Initialized:", "sums", "dropbox-checksums", ToString(d), "sum">>])

C12_SeedFirst ==
    /\ \A d \in Days :
          sumFiles[d].exists =>
              /\ sumFiles[d].lines # <<>>
              /\ \A k \in 1..Len(sumFiles[d].lines) :
                    (sumFiles[d].lines[k] = SeedOf(d)) <=> (k = 1)
              /\ \A k \in 1..Len(sumFiles[d].lines) :
                    IsSeed(sumFiles[d].lines[k]) => k = 1
    /\ (pc = "events" /\ ~sumAtPost[DATE_STAMP].exists) =>
          SUM_LIST = <<SeedOf(DATE_STAMP)>>

C12_Witness ==
    /\ nruns = 2
    /\ pc = "events"
    /\ sumAtStart[DATE_STAMP].exists
    /\ Len(sumAtStart[DATE_STAMP].lines) = 2
    /\ SUM_LIST = sumAtStart[DATE_STAMP].lines     \* loaded as it was, not seeded again
    /\ events # <<>>

(***************************************************************************)
(* C13  Single page, end to end.  Starting without a dedup index file, a   *)
(* run whose only response has status 200, has_more = false and k pairwise *)
(* distinct well-formed events ends with the event log grown by exactly    *)
(* those k events' lines in response order, the dedup index holding the    *)
(* seed followed by their k fingerprints, and the watermark file holding   *)
(* the run's start time.                                                   *)
(***************************************************************************)
SinglePageRun ==
    /\ script = "dropbox_downloader.py"
    /\ pc = "done"
    /\ ~sumAtStart[DATE_STAMP].exists
    /\ Len(responses) = 1
    /\ responses[1].has_more = JsonBool(FALSE)
    /\ \A k \in 1..Len(responses[1].events) : Canonical(responses[1].events[k])
    /\ NoRepeat(responses[1].events)

C13_SinglePage ==
    SinglePageRun =>
        LET page == responses[1].events IN
        /\ logFiles[DATE_STAMP].lines =
              logAtStart[DATE_STAMP].lines
                \o [i \in 1..Len(page) |-> JsonDumps(Normalize(page[i], tz))]
        /\ sumFiles[DATE_STAMP].lines =
              <<SeedOf(DATE_STAMP)>>
                \o [i \in 1..Len(page) |-> Md5(JsonDumps(Normalize(page[i], tz)))]
        /\ lockFile.exists
        /\ lockFile.text = <<"iso", ToString(my_now \div TicksPerSec)>>

C13_Witness ==
    /\ SinglePageRun
    /\ Len(responses[1].events) = 2
    /\ Len(logFiles[DATE_STAMP].lines) = 2
    /\ Len(sumFiles[DATE_STAMP].lines) = 3

(***************************************************************************)
(* C15  A watermark write failure is fatal.  When writing the watermark    *)
(* file fails with an I/O error the error is propagated and the run ends   *)
(* before any request is issued and before the event log or the dedup      *)
(* index is touched; no run issues a request without having written the    *)
(* watermark.                                                              *)
(***************************************************************************)
C15_WriteFailureFatal ==
    /\ pc = "os_error" =>
          /\ exit_code = 1
          /\ requests = <<>>
          /\ lockWrites = 0
          /\ logFiles = logAtStart
          /\ sumFiles = sumAtStart
    /\ (requests # <<>> \/ pc \in {"window", "post", "events"}) =>
          /\ lockWrites = 1
          /\ lockFile = [exists |-> TRUE,
                         text |-> <<"iso", ToString(my_now \div TicksPerSec)>>]

C15_Witness ==
    /\ pc = "os_error"
    /\ nruns = 2
    /\ lockFile = [exists |-> TRUE, text |-> <<>>]
    /\ cacheAtStart[2].text # <<>>
    /\ \E d \in Days : logFiles[d].lines # <<>>

NoRun == pc \in {"idle"} \cup Ended \cup EndedEarly

C17_IndexMirrorsLog ==
    (script = "dropbox_downloader.py" /\ NoRun) =>
        \A d \in Days :
            IF sumFiles[d].exists
            THEN /\ logFiles[d].exists
                 /\ sumFiles[d].lines =
                       <<SeedOf(d)>> \o [i \in 1..Len(logFiles[d].lines) |->
                                            Md5(logFiles[d].lines[i])]
            ELSE logFiles[d] = Absent

C17_Witness ==
    /\ script = "dropbox_downloader.py"
    /\ pc = "raised"
    /\ Len(processed) = 2
    /\ Len(logFiles[DATE_STAMP].lines) = 1
    /\ Len(sumFiles[DATE_STAMP].lines) = 2

(***************************************************************************)
(* C18  Per-day partition frame.  Every append and every dedup membership  *)
(* check of a run uses only the event log and the dedup index named for    *)
(* the calendar day on which the run started; the files of every other day *)
(* are left as they were, and the lines the current day's files held are   *)
(* never rewritten or removed.  Stated of dropbox_downloader.py.           *)
(***************************************************************************)
IsPrefix(p, q) == Len(p) <= Len(q) /\ SubSeq(q, 1, Len(p)) = p

C18_DayFrame ==
    (script = "dropbox_downloader.py" /\ nruns > 0) =>
        /\ \A d \in Days \ {DATE_STAMP} :
              logFiles[d] = logAtStart[d] /\ sumFiles[d] = sumAtStart[d]
        /\ IsPrefix(logAtStart[DATE_STAMP].lines, logFiles[DATE_STAMP].lines)
        /\ IsPrefix(sumAtStart[DATE_STAMP].lines, sumFiles[DATE_STAMP].lines)
        /\ sumAtStart[DATE_STAMP].exists => sumFiles[DATE_STAMP].exists
        /\ logAtStart[DATE_STAMP].exists => logFiles[DATE_STAMP].exists
        /\ pc = "events" =>
              /\ SUM_LIST[1] = SeedOf(DATE_STAMP)
              /\ IsPrefix(SUM_LIST, sumFiles[DATE_STAMP].lines)

C18_Witness ==
    /\ script = "dropbox_downloader.py"
    /\ nruns = 2
    /\ pc = "done"
    /\ DATE_STAMP = 0 /\ day = 1        \* midnight passed during the run
    /\ logAtStart[DATE_STAMP].lines # <<>>
    /\ Len(logFiles[DATE_STAMP].lines) = 2

(***************************************************************************)
(* C14  Concurrent runs race on the dedup index.  When runs are serialized *)
(* (at most one run against the cache directory at a time) no run appends  *)
(* an event whose fingerprint an earlier run recorded in the same index.   *)
(* When two runs overlap and receive the same event, both can load an      *)
(* index that lacks its fingerprint and both append the event: the state   *)
(* C14_Witness, a log with the same line twice, is reachable.  Stated of   *)
(* dropbox_downloader.py with two processes (ConcurrentSpec).              *)
(***************************************************************************)
C14_SerializedNoReappend ==
    (script = "dropbox_downloader.py" /\ nruns > 0 /\ ~overlapped) =>
        /\ \A k \in 1..Len(AppendedLog) :
              ~Contains(sumAtStart[DATE_STAMP].lines, Md5(AppendedLog[k]))
        /\ \A k \in 1..Len(AppendedSums) :
              ~Contains(sumAtStart[DATE_STAMP].lines, AppendedSums[k])

\* two overlapping runs that got the same one-event page have both ended; each
\* had loaded the index with the seed alone, and the log holds the event twice
C14_Witness ==
    /\ script = "dropbox_downloader.py"
    /\ overlapped
    /\ pc = "done" /\ other.pc = "done"
    /\ DATE_STAMP = other.DATE_STAMP
    /\ Len(responses) = 1 /\ responses = other.responses
    /\ responses[1].events = <<RaceEvent>>
    /\ SUM_LIST = <<SeedOf(DATE_STAMP)>> /\ other.SUM_LIST = SUM_LIST
    /\ Len(logFiles[DATE_STAMP].lines) = 2
    /\ logFiles[DATE_STAMP].lines[1] = logFiles[DATE_STAMP].lines[2]

====
